---- MODULE Spec2Model ----
(***************************************************************************)
(* Region geometry (cornucopia/fov.py) and samplers (cornucopia/random.py) *)
(* of cornucopia.                                                          *)
(*                                                                         *)
(* An array is modelled by its spatial axes only (x.shape[1:]): a sequence *)
(* over the axes, each axis being the sequence of the source indices       *)
(* 1..extent that the element at that position comes from.  Slicing and    *)
(* padding act on each axis separately, so this keeps both the extent and  *)
(* the identity of the elements.  An element synthesized by the boundary   *)
(* extension primitive is written Synth.                                   *)
(*                                                                         *)
(* Python floats are modelled by exact rationals [num, den], den > 0.      *)
(***************************************************************************)
EXTENDS Integers, Sequences, FiniteSets, TLC

VARIABLES
    x,           \* the input array (its spatial axes)
    self,        \* the constructed transform / sampler object, or the
                 \* sequence of transforms of a composed crop / pad call
    pc,          \* position of the call in progress
    parameters,  \* what get_parameters resolved
    region,      \* one (crop, padding) per tensor the patch was resolved on
    out,         \* one output array per application
    padargs,     \* the argument lists handed to the padding primitive
    ret          \* what the last sampler call returned or raised

vars == <<x, self, pc, parameters, region, out, padargs, ret>>

----------------------------------------------------------------------------
\* Bounds of the model

MaxDim == 2          \* number of spatial axes is 1..MaxDim
MaxExtent == 3       \* extent of an axis is 1..MaxExtent
MaxPatch == 5        \* requested patch sizes are 1..MaxPatch
CenterDen == 2       \* user centers are the grid n / CenterDen in -1..1
UniformSteps == 3    \* random() is one of t / UniformSteps, t in 0..UniformSteps
MaxExponent == 3     \* PowerTwoTransform exponents are 0..MaxExponent

MaxAmount == 2       \* crop / pad amounts in voxels are 0..MaxAmount
PctDen == 2          \* crop / pad fractions are the grid k / PctDen in 0..1
MaxRange == 2        \* a RandKFrom range holds 0..MaxRange items
MaxK == 3            \* a configured k is 1..MaxK

NTensors == 2        \* a joint call is given the two tensors A and B

Synth == 0

----------------------------------------------------------------------------
\* Rational arithmetic standing for Python float arithmetic

Rat(n, d) == [num |-> n, den |-> d]

FromInt(n) == Rat(n, 1)

RatAdd(a, b) == Rat(a.num * b.den + b.num * a.den, a.den * b.den)

RatSub(a, b) == Rat(a.num * b.den - b.num * a.den, a.den * b.den)

RatMul(a, b) == Rat(a.num * b.num, a.den * b.den)

RatLe(a, b) == a.num * b.den <= b.num * a.den

RatLt(a, b) == a.num * b.den < b.num * a.den

RatEq(a, b) == a.num * b.den = b.num * a.den

\* Python's max(a, b) and min(a, b): the first argument wins a tie
RatMax(a, b) == IF RatLt(a, b) THEN b ELSE a

RatMin(a, b) == IF RatLt(b, a) THEN b ELSE a

\* int(math.floor(a))
RatFloor(a) == a.num \div a.den

\* int(math.ceil(a))
RatCeil(a) == -((-a.num) \div a.den)

Max(a, b) == IF a >= b THEN a ELSE b

Min(a, b) == IF a <= b THEN a ELSE b

RECURSIVE Pow2(_)
Pow2(e) == IF e = 0 THEN 1 ELSE 2 * Pow2(e - 1)

----------------------------------------------------------------------------
\* Consumed primitives: list normalisation, array slicing, boundary extension

\* ensure_list(v, n): v is a sequence (a scalar is a sequence of length 1);
\* the result has exactly n entries, a short list being extended by its last
\* entry and a long one truncated.
EnsureList(v, n) == [i \in 1..n |-> IF i <= Len(v) THEN v[i] ELSE v[Len(v)]]

Shape(a) == [i \in 1..Len(a) |-> Len(a[i])]

Arange(n) == [i \in 1..n |-> i]

\* a[start:stop] on one axis, with Python's treatment of negative and
\* out-of-range bounds; s = [start, stop, stop_none]
PyIndex(i, n) == IF i < 0 THEN Max(i + n, 0) ELSE Min(i, n)

SliceAxis(a, s) ==
    LET n     == Len(a)
        start == PyIndex(s.start, n)
        stop  == IF s.stop_none THEN n ELSE PyIndex(s.stop, n)
    IN  IF stop <= start THEN << >> ELSE SubSeq(a, start + 1, stop)

\* x[(Ellipsis, *slices)]: the slices address the trailing axes
Index(a, slices) ==
    LET skip == Len(a) - Len(slices)
    IN  [i \in 1..Len(a) |->
            IF i <= skip THEN a[i] ELSE SliceAxis(a[i], slices[i - skip])]

Synths(n) == [i \in 1..n |-> Synth]

\* pad(x, padding, side=...): the boundary extension primitive.  With a side,
\* padding holds one amount per axis, applied before ('pre'), after ('post')
\* or on both ends ('both'); with side None it holds pre and post amounts in
\* turn.  The amounts address the trailing axes; missing ones are zero.
PadPairs(padding, side) ==
    IF side = "none"
    THEN [i \in 1..(Len(padding) \div 2) |->
             [pre |-> padding[2 * i - 1], post |-> padding[2 * i]]]
    ELSE [i \in 1..Len(padding) |->
             [pre  |-> IF side \in {"pre", "both"} THEN padding[i] ELSE 0,
              post |-> IF side \in {"post", "both"} THEN padding[i] ELSE 0]]

pad(a, padding, side) ==
    LET pairs == PadPairs(padding, side)
        skip  == Len(a) - Len(pairs)
    IN  [i \in 1..Len(a) |->
            IF i <= skip THEN a[i]
            ELSE Synths(pairs[i - skip].pre) \o a[i] \o Synths(pairs[i - skip].post)]

----------------------------------------------------------------------------
\* PatchTransform

PatchTransform(shape, center) ==
    [kind |-> "Patch", shape |-> shape, center |-> center, shared |-> TRUE]

\* (c + 1) / 2 * (s - 1)
PatchCenter(c, s) ==
    RatMul(RatMul(RatAdd(c, FromInt(1)), Rat(1, 2)), FromInt(s - 1))

\* int(math.floor(cc - ss/2))
PatchFirst(cc, ss) == RatFloor(RatSub(cc, Rat(ss, 2)))

PadFirst(first) == Max(0, -first)

PadLast(last, sv) == Max(0, last - sv)

ClampFirst(first) == Max(0, first)

\* the upper bound left as computed, without the clamp to the extent
ClampLast_unclamped(sv, last) == last

ClampLast(sv, last) == Min(sv, last)

\* one turn of the loop over zip(shape, center, x.shape[1:])
PatchAxis(ss, cc, sv) ==
    LET first == PatchFirst(cc, ss)
        last  == first + ss
    IN  [first     |-> ClampFirst(first),
         last      |-> ClampLast(sv, last),
         pad_first |-> PadFirst(first),
         pad_last  |-> PadLast(last, sv)]

Patch_get_parameters(t, xshape) ==
    LET ndim   == Len(xshape)
        shape  == EnsureList(t.shape, ndim)
        center == [i \in 1..ndim |-> PatchCenter(EnsureList(t.center, ndim)[i], xshape[i])]
        axis   == [i \in 1..ndim |-> PatchAxis(shape[i], center[i], xshape[i])]
    IN  [crop    |-> [i \in 1..ndim |->
                         [start |-> axis[i].first, stop |-> axis[i].last,
                          stop_none |-> FALSE]],
         padding |-> [j \in 1..(2 * ndim) |->
                         IF j % 2 = 1 THEN axis[(j + 1) \div 2].pad_first
                                      ELSE axis[j \div 2].pad_last]]

Patch_apply_transform(a, p) == pad(Index(a, p.crop), p.padding, "none")

----------------------------------------------------------------------------
\* RandomPatchTransform

RandomPatchTransform(patch_size, shared) ==
    [kind |-> "RandomPatch", patch_size |-> patch_size, shared |-> shared]

\* max(p/s - 1, -1)
MinCenter(p, s) == RatMax(RatSub(Rat(p, s), FromInt(1)), FromInt(-1))

\* min(1 - p/s, 1)
MaxCenter(p, s) == RatMin(RatSub(FromInt(1), Rat(p, s)), FromInt(1))

\* random.random(): a float of [0, 1); the last grid point stands for a draw
\* so close to 1 that mn + (mx - mn) * r rounds to mx
Random == {Rat(t, UniformSteps) : t \in 0..UniformSteps}

\* Uniform(mn, mx)() = random.uniform(mn, mx) = mn + (mx - mn) * random()
Uniform(mn, mx, r) == RatAdd(mn, RatMul(RatSub(mx, mn), r))

\* what get_parameters returns when the draws of random() are r[1], r[2], ...
RandomPatch_get_parameters(t, xshape, r) ==
    LET ndim       == Len(xshape)
        patch_size == EnsureList(t.patch_size, ndim)
        min_center == [i \in 1..ndim |-> MinCenter(patch_size[i], xshape[i])]
        max_center == [i \in 1..ndim |-> MaxCenter(patch_size[i], xshape[i])]
    IN  [patch_size |-> patch_size,
         center     |-> [i \in 1..ndim |-> Uniform(min_center[i], max_center[i], r[i])]]

\* apply_transform drawing the center again instead of taking the resolved one
RandomPatch_subtransform_redrawn(t, xshape, p) ==
    {PatchTransform(q.patch_size, q.center) :
        q \in {RandomPatch_get_parameters(t, xshape, r) :
                  r \in [1..Len(xshape) -> Random]}}

\* the PatchTransform objects apply_transform may build from the resolved
\* parameters: it takes both fields from them and draws nothing
RandomPatch_subtransform(t, xshape, p) ==
    {PatchTransform(p.patch_size, p.center)}

----------------------------------------------------------------------------
\* PowerTwoTransform

PowerTwoTransform(exponent) ==
    [kind |-> "PowerTwo", exponent |-> exponent, shared |-> FALSE]

\* [max(2 ** e, s) for s, e in zip(exponent, shape)]: s runs over the
\* exponents and e over the extents
PowerTwo_get_parameters(t, xshape) ==
    LET ndim     == Len(xshape)
        exponent == EnsureList(t.exponent, ndim)
    IN  [i \in 1..ndim |-> Max(Pow2(xshape[i]), exponent[i])]

\* PatchTransform(parameters, bound=self.bound): center keeps its default 0
PowerTwo_subtransform(bigshape) == PatchTransform(bigshape, <<FromInt(0)>>)

----------------------------------------------------------------------------
\* Transform.__call__ on the tensors (A, B): parameters are resolved on the
\* first tensor and, when shared, reused for the next one

NextPc(shared, nout) ==
    IF nout >= NTensors THEN "done"
    ELSE IF shared THEN "resolved" ELSE "constructed"

Extents == 1..MaxExtent

Arrays ==
    UNION {{[i \in 1..n |-> Arange(s[i])] : s \in [1..n -> Extents]} : n \in 1..MaxDim}

Centers == {Rat(n, CenterDen) : n \in (-CenterDen)..CenterDen}

PatchObjects ==
    {PatchTransform(<<s>>, <<c>>) : s \in 1..MaxPatch, c \in Centers}

\* shared keeps the constructor's default, True
RandomPatchObjects ==
    {RandomPatchTransform(<<s>>, TRUE) : s \in 1..MaxPatch}

PowerTwoObjects == {PowerTwoTransform(<<e>>) : e \in 0..MaxExponent}

Idle == << >>

InitPatch ==
    /\ x \in Arrays
    /\ self \in PatchObjects \cup RandomPatchObjects \cup PowerTwoObjects
    /\ pc = "constructed"
    /\ parameters = Idle
    /\ region = << >>
    /\ out = << >>
    /\ padargs = << >>
    /\ ret = Idle

PatchGetParameters ==
    /\ pc = "constructed"
    /\ self.kind = "Patch"
    /\ parameters' = Patch_get_parameters(self, Shape(x))
    /\ pc' = "resolved"
    /\ UNCHANGED <<x, self, region, out, padargs, ret>>

PatchApplyTransform ==
    /\ pc = "resolved"
    /\ self.kind = "Patch"
    /\ region' = Append(region, parameters)
    /\ padargs' = Append(padargs, parameters.padding)
    /\ out' = Append(out, Patch_apply_transform(x, parameters))
    /\ pc' = NextPc(self.shared, Len(out) + 1)
    /\ UNCHANGED <<x, self, parameters, ret>>

RandomPatchGetParameters ==
    /\ pc = "constructed"
    /\ self.kind = "RandomPatch"
    /\ \E r \in [1..Len(x) -> Random] :
          parameters' = RandomPatch_get_parameters(self, Shape(x), r)
    /\ pc' = "resolved"
    /\ UNCHANGED <<x, self, region, out, padargs, ret>>

\* apply_transform builds the PatchTransform and calls it: get_parameters,
\* then apply_transform, of that sub-transform
RandomPatchApplyTransform ==
    /\ pc = "resolved"
    /\ self.kind = "RandomPatch"
    /\ \E t \in RandomPatch_subtransform(self, Shape(x), parameters) :
          LET p == Patch_get_parameters(t, Shape(x))
          IN  /\ region' = Append(region, p)
              /\ padargs' = Append(padargs, p.padding)
              /\ out' = Append(out, Patch_apply_transform(x, p))
    /\ pc' = NextPc(self.shared, Len(out) + 1)
    /\ UNCHANGED <<x, self, parameters, ret>>

PowerTwoGetParameters ==
    /\ pc = "constructed"
    /\ self.kind = "PowerTwo"
    /\ parameters' = PowerTwo_get_parameters(self, Shape(x))
    /\ pc' = "resolved"
    /\ UNCHANGED <<x, self, region, out, padargs, ret>>

PowerTwoApplyTransform ==
    /\ pc = "resolved"
    /\ self.kind = "PowerTwo"
    /\ LET p == Patch_get_parameters(PowerTwo_subtransform(parameters), Shape(x))
       IN  /\ region' = Append(region, p)
           /\ padargs' = Append(padargs, p.padding)
           /\ out' = Append(out, Patch_apply_transform(x, p))
    /\ pc' = NextPc(self.shared, Len(out) + 1)
    /\ UNCHANGED <<x, self, parameters, ret>>

NextPatch ==
    \/ PatchGetParameters
    \/ PatchApplyTransform
    \/ RandomPatchGetParameters
    \/ RandomPatchApplyTransform
    \/ PowerTwoGetParameters
    \/ PowerTwoApplyTransform

SpecPatch == InitPatch /\ [][NextPatch]_vars

----------------------------------------------------------------------------
\* Properties of the patch family, under SpecPatch

AxisOf(p, i) ==
    [first |-> p.crop[i].start, last |-> p.crop[i].stop,
     pad_first |-> p.padding[2 * i - 1], pad_last |-> p.padding[2 * i],
     length |-> Len(SliceAxis(x[i], p.crop[i]))]

\* C1: PatchTransform.get_parameters, for a center in -1..1: on every axis
\* 0 <= first <= last <= extent, the slice is no longer than the extent, and
\* slice length + pad_before + pad_after is the requested shape.
C1_PatchWithinExtent ==
    (self.kind = "Patch" /\ pc # "constructed") =>
        \A i \in 1..Len(x) :
            LET a == AxisOf(parameters, i)
            IN  /\ 0 <= a.first /\ a.first <= a.last /\ a.last <= Len(x[i])
                /\ a.length = a.last - a.first
                /\ a.length <= Len(x[i])
                /\ a.length + a.pad_first + a.pad_last
                      = EnsureList(self.shape, Len(x))[i]

\* a patch that sticks out of the source at both ends of an axis, and one
\* that sticks out at the end only, of a two-axis array
C1_Witness ==
    /\ self.kind = "Patch" /\ pc = "done" /\ Len(x) = 2
    /\ AxisOf(parameters, 1).pad_first > 0 /\ AxisOf(parameters, 1).pad_last > 0
    /\ AxisOf(parameters, 1).length = Len(x[1])
    /\ AxisOf(parameters, 2).pad_first = 0 /\ AxisOf(parameters, 2).pad_last > 0
    /\ AxisOf(parameters, 2).length > 0

C3_PatchInsideSource ==
    (self.kind = "RandomPatch" /\ Len(region) >= 1) =>
        \A k \in 1..Len(region) : \A i \in 1..Len(x) :
            parameters.patch_size[i] <= Len(x[i]) =>
                LET a == AxisOf(region[k], i)
                IN  /\ a.pad_first = 0 /\ a.pad_last = 0
                    /\ a.length = parameters.patch_size[i]

\* The smallest multiple of 2**e that is >= s
SmallestMultiple(e, s) == ((s + Pow2(e) - 1) \div Pow2(e)) * Pow2(e)

\* C5 (as claimed): the output extent of PowerTwoTransform on each axis is
\* the smallest multiple of 2**exponent that is >= the input extent.
C5_PowerTwoExtent ==
    (self.kind = "PowerTwo" /\ Len(out) >= 1) =>
        \A k \in 1..Len(out) : \A i \in 1..Len(x) :
            LET e == EnsureList(self.exponent, Len(x))[i]
                n == Len(out[k][i])
            IN  /\ n % Pow2(e) = 0
                /\ n >= Len(x[i])
                /\ n = SmallestMultiple(e, Len(x[i]))

\* C10 (as claimed): where patch size >= extent the allowed center range is
\* the full [-1, 1]; always lower bound <= upper bound and the sampled
\* center is within -1..1.
C10_CenterRange ==
    (self.kind = "RandomPatch" /\ pc = "resolved") =>
        \A i \in 1..Len(x) :
            LET p  == parameters.patch_size[i]
                mn == MinCenter(p, Len(x[i]))
                mx == MaxCenter(p, Len(x[i]))
                c  == parameters.center[i]
            IN  /\ p >= Len(x[i]) => (RatEq(mn, FromInt(-1)) /\ RatEq(mx, FromInt(1)))
                /\ RatLe(mn, mx)
                /\ RatLe(FromInt(-1), c) /\ RatLe(c, FromInt(1))

----------------------------------------------------------------------------
\* Samplers: RandInt and RandKFrom

Items == {"a", "b"}

\* RandInt(min, max)(): random.randint(min, max), both ends included
RandInt(min, max) == min..max

\* RandInt(min, max)(n) for an integer n: a list of n such draws
RandIntList(min, max, n) == [1..n -> RandInt(min, max)]

\* RandKFrom(range, k, replacement): k = 0 stands for a k that was omitted
\* (None and 0 are both falsy, and every test of k is a truth test)
RandKFrom(range, k, replacement) ==
    [kind |-> "RandKFrom", range |-> range, k |-> k, replacement |-> replacement]

\* the check of __init__: does the constructor raise ValueError?
RandKFrom_init_raises(range, k, replacement) ==
    ~replacement /\ k # 0 /\ k > Len(range)

\* self.k or (1 + RandInt(len(self.range))()): the values k may take
RandKFrom_k(t) ==
    IF t.k # 0 THEN {t.k} ELSE {1 + r : r \in RandInt(0, Len(t.range))}

\* random.shuffle of a list of m items: a permutation of the positions 0..m-1,
\* sampled with repeats instead
Shuffles_repeating(m) == [1..m -> 0..(m - 1)]

\* random.shuffle of a list of m items: any permutation of the positions 0..m-1
Shuffles(m) ==
    {f \in [1..m -> 0..(m - 1)] : \A i, j \in 1..m : f[i] = f[j] => i = j}

\* range[:k]
Take(s, k) == SubSeq(s, 1, PyIndex(k, Len(s)))

\* self.range once the shuffled list f of positions has been made: the
\* stored list itself shuffled in place
StoredRange_inplace(range, f) == [j \in 1..Len(range) |-> range[f[j] + 1]]

\* self.range once the shuffled list f of positions has been made: the
\* shuffle acts on the copy list(self.range)
StoredRange(range, f) == range

Returned(n_given, k, picked, value, error, stored) ==
    [ret |-> [n_given |-> n_given, k |-> k, picked |-> picked, value |-> value,
              error |-> error],
     range |-> stored]

\* the outcomes of RandKFrom.__call__(n) when k has been chosen
RandKFrom_call(t, n_given, k) ==
    IF n_given
    THEN {Returned(n_given, k, << >>, << >>, "ValueError", t.range)}
    ELSE IF ~t.replacement
    THEN {Returned(n_given, k, Take(f, k),
                   [j \in 1..Len(Take(f, k)) |-> t.range[Take(f, k)[j] + 1]], "none",
                   StoredRange(t.range, f)) :
             f \in Shuffles(Len(t.range))}
    ELSE {IF \E j \in 1..k : index[j] >= Len(t.range)
          THEN Returned(n_given, k, index, << >>, "IndexError", t.range)
          ELSE Returned(n_given, k, index,
                        [j \in 1..k |-> t.range[index[j] + 1]], "none", t.range) :
             index \in RandIntList(0, Len(t.range), k)}

Ranges == UNION {[1..m -> Items] : m \in 0..MaxRange}

InitRandK ==
    /\ x = << >>
    /\ \E range \in Ranges, k \in 0..MaxK, replacement \in BOOLEAN :
          /\ ~RandKFrom_init_raises(range, k, replacement)
          /\ self = RandKFrom(range, k, replacement)
    /\ pc = "constructed"
    /\ parameters = Idle
    /\ region = << >>
    /\ out = << >>
    /\ padargs = << >>
    /\ ret = Idle

RandKFromCall ==
    /\ pc \in {"constructed", "returned"}
    /\ self.kind = "RandKFrom"
    /\ \E n_given \in BOOLEAN : \E k \in RandKFrom_k(self) :
          \E o \in RandKFrom_call(self, n_given, k) :
              /\ ret' = o.ret
              /\ self' = [self EXCEPT !.range = o.range]
    /\ pc' = "returned"
    /\ UNCHANGED <<x, parameters, region, out, padargs>>

NextRandK == RandKFromCall

SpecRandK == InitRandK /\ [][NextRandK]_vars

----------------------------------------------------------------------------
\* Properties of RandKFrom, under SpecRandK

Served == self.kind = "RandKFrom" /\ pc = "returned" /\ ~ret.n_given

MemberOfRange(v) == \E i \in 1..Len(self.range) : self.range[i] = v

\* C7: without replacement and with a configured k, 1 <= k <= len(range),
\* every call returns exactly k items, taken from k distinct positions of the
\* range, all of them members of the range; the stored range is not changed.
C7_DistinctPicks ==
    /\ [](  (Served /\ ~self.replacement /\ self.k \in 1..Len(self.range)) =>
              /\ ret.error = "none"
              /\ Len(ret.value) = self.k
              /\ Len(ret.picked) = self.k
              /\ \A i, j \in 1..Len(ret.picked) :
                    ret.picked[i] = ret.picked[j] => i = j
              /\ \A i \in 1..Len(ret.picked) :
                    /\ ret.picked[i] \in 0..(Len(self.range) - 1)
                    /\ ret.value[i] = self.range[ret.picked[i] + 1]
                    /\ MemberOfRange(ret.value[i]) )
    /\ [][self.kind = "RandKFrom" => self'.range = self.range]_vars

\* two picks with equal items, from the two positions of a range in
\* shuffled order
C7_Witness ==
    /\ Served /\ ~self.replacement /\ self.k = 2 /\ Len(self.range) = 2
    /\ ret.value[1] = ret.value[2]
    /\ ret.picked = <<1, 0>>

\* C8 (as claimed): with replacement, a configured k >= 1 and a non-empty
\* range, every call completes without error and returns exactly k items,
\* every selected index being in 0..len(range)-1 and every item a member.
C8_ReplacementPicks ==
    (Served /\ self.replacement /\ self.k >= 1 /\ Len(self.range) >= 1) =>
        /\ ret.error = "none"
        /\ Len(ret.value) = self.k
        /\ \A i \in 1..Len(ret.picked) :
              ret.picked[i] \in 0..(Len(self.range) - 1)
        /\ \A i \in 1..Len(ret.value) : MemberOfRange(ret.value[i])

\* C9 (as claimed): with k omitted, on every call k is chosen in
\* 1..len(range), and the selection has between 1 and len(range) items.
C9_RandomK ==
    (self.kind = "RandKFrom" /\ pc = "returned" /\ self.k = 0
        /\ Len(self.range) >= 1) =>
        /\ ret.k \in 1..Len(self.range)
        /\ ret.error = "none" => Len(ret.value) \in 1..Len(self.range)

----------------------------------------------------------------------------
\* CropTransform and PadTransform.  An amount list holds integers when the
\* unit is 'vox' and fractions when it is 'pct'; side is "pre", "post",
\* "both" or "none" (None).

CropTransform(cropping, unit, side) ==
    [kind |-> "Crop", amount |-> cropping, unit |-> unit, side |-> side]

PadTransform(padding, unit, side) ==
    [kind |-> "Pad", amount |-> padding, unit |-> unit, side |-> side]

Zeros(n) == [i \in 1..n |-> 0]

\* int(math.ceil(c * s))
PctToVox(c, s) == RatCeil(RatMul(c, FromInt(s)))

\* zip(amounts, shape) under unit 'pct'
PctList(amounts, shape) ==
    [i \in 1..Min(Len(amounts), Len(shape)) |-> PctToVox(amounts[i], shape[i])]

\* [s for s in x.shape[1:] for _ in range(2)]
Shape2(shape) == [j \in 1..(2 * Len(shape)) |-> shape[(j + 1) \div 2]]

\* the amounts resolved when side is given: one per axis
OneSidedAmounts(t, shape) ==
    LET l == EnsureList(t.amount, Len(shape))
    IN  IF t.unit = "pct" THEN PctList(l, shape) ELSE l

\* the amounts resolved when side is None:
\*   amounts = ensure_list(amounts)
\*   amounts = [0] * (2*ndim - len(amounts))
TwoSidedAmounts(t, shape) ==
    LET l == Zeros(Max(0, 2 * Len(shape) - Len(t.amount)))
    IN  IF t.unit = "pct"
        THEN PctList([i \in 1..Len(l) |-> FromInt(l[i])], Shape2(shape))
        ELSE l

\* slice(c0, -c1 if c1 else None)
CropSlice(c0, c1) == [start |-> c0, stop |-> -c1, stop_none |-> (c1 = 0)]

Crop_slices(t, shape) ==
    IF t.side # "none"
    THEN LET c == OneSidedAmounts(t, shape)
         IN  [i \in 1..Len(c) |-> CropSlice(c[i], c[i])]
    ELSE LET c == TwoSidedAmounts(t, shape)
         IN  [i \in 1..(Len(c) \div 2) |-> CropSlice(c[2 * i - 1], c[2 * i])]

Crop_apply_transform(t, a) == Index(a, Crop_slices(t, Shape(a)))

\* the padding list PadTransform hands to pad(...)
Pad_padding(t, shape) ==
    IF t.side # "none" THEN OneSidedAmounts(t, shape)
                       ELSE TwoSidedAmounts(t, shape)

Pad_apply_transform(t, a) == pad(a, Pad_padding(t, Shape(a)), t.side)

Sides == {"pre", "post", "both"}

VoxAmounts == 0..MaxAmount

PctAmounts == {Rat(k, PctDen) : k \in 0..PctDen}

OneSided(kind) ==
    {[kind |-> kind, amount |-> <<a>>, unit |-> "vox", side |-> sd] :
        a \in VoxAmounts, sd \in Sides}
    \cup
    {[kind |-> kind, amount |-> <<a>>, unit |-> "pct", side |-> sd] :
        a \in PctAmounts, sd \in Sides}

\* pre and post amounts in turn, for the first m axes of ndim
TwoSided(kind, ndim) ==
    {[kind |-> kind, amount |-> l, unit |-> "vox", side |-> "none"] :
        l \in UNION {[1..(2 * m) -> VoxAmounts] : m \in 1..ndim}}
    \cup
    {[kind |-> kind, amount |-> l, unit |-> "pct", side |-> "none"] :
        l \in UNION {[1..(2 * m) -> PctAmounts] : m \in 1..ndim}}

\* a single transform, or a pad followed by a crop of its output
Pipelines(ndim) ==
    {<<t>> : t \in OneSided("Crop") \cup OneSided("Pad")
                   \cup TwoSided("Crop", ndim) \cup TwoSided("Pad", ndim)}
    \cup
    {<<p, c>> : p \in OneSided("Pad"), c \in OneSided("Crop")}

InitCropPad ==
    /\ x \in Arrays
    /\ self \in Pipelines(Len(x))
    /\ pc = "constructed"
    /\ parameters = Idle
    /\ region = << >>
    /\ out = << >>
    /\ padargs = << >>
    /\ ret = Idle

\* the array the next transform of the pipeline is given
Current == IF out = << >> THEN x ELSE out[Len(out)]

StepPc(n) == IF n >= Len(self) THEN "done" ELSE "constructed"

CropApplyTransform ==
    /\ pc = "constructed"
    /\ self[Len(out) + 1].kind = "Crop"
    /\ out' = Append(out, Crop_apply_transform(self[Len(out) + 1], Current))
    /\ pc' = StepPc(Len(out) + 1)
    /\ UNCHANGED <<x, self, parameters, region, padargs, ret>>

PadApplyTransform ==
    /\ pc = "constructed"
    /\ self[Len(out) + 1].kind = "Pad"
    /\ padargs' = Append(padargs, Pad_padding(self[Len(out) + 1], Shape(Current)))
    /\ out' = Append(out, Pad_apply_transform(self[Len(out) + 1], Current))
    /\ pc' = StepPc(Len(out) + 1)
    /\ UNCHANGED <<x, self, parameters, region, ret>>

NextCropPad == CropApplyTransform \/ PadApplyTransform

SpecCropPad == InitCropPad /\ [][NextCropPad]_vars

----------------------------------------------------------------------------
\* Properties of crop and pad, under SpecCropPad

\* C4 (as claimed): for every side in {pre, post, both} and every amount
\* p >= 0 in voxels, PadTransform(p, side) followed by CropTransform(p, side)
\* gives back the original extent and the original elements on every axis.
C4_PadCropRoundTrip ==
    (/\ pc = "done" /\ Len(self) = 2
     /\ self[1].kind = "Pad" /\ self[2].kind = "Crop"
     /\ self[1].unit = "vox" /\ self[2].unit = "vox"
     /\ self[1].side = self[2].side
     /\ self[1].amount = self[2].amount) =>
        out[2] = x

\* C6 (as claimed): with side None and the amounts [pre_0, post_0, pre_1,
\* post_1, ...] in voxels, CropTransform removes exactly pre_i elements from
\* the start and post_i from the end of axis i, and PadTransform hands
\* exactly these amounts to the padding primitive.
C6_TwoSidedAmounts ==
    (/\ pc = "done" /\ Len(self) = 1
     /\ self[1].side = "none" /\ self[1].unit = "vox"
     /\ Len(self[1].amount) = 2 * Len(x)) =>
        /\ self[1].kind = "Crop" =>
              \A i \in 1..Len(x) :
                  out[1][i] = SubSeq(x[i], self[1].amount[2 * i - 1] + 1,
                                     Len(x[i]) - self[1].amount[2 * i])
        /\ self[1].kind = "Pad" => padargs[1] = self[1].amount

====
